---- MODULE Spec2Model ----
(***************************************************************************)
(* Task / user consistency engine of src/routes/tasks.js and               *)
(* src/routes/users.js (the second, current revision of users.js, lines    *)
(* 130-312).  The two document stores are functions from the ids of the    *)
(* stored documents to the documents; every route handler is one operator  *)
(* from the stores and the request to the stores after the handler and the *)
(* response, and one action that applies it.  The response is not kept in  *)
(* the state: a claim about a response evaluates the handler's operator in *)
(* the reachable states.  dateCreated is set once and never read, and is   *)
(* left out.                                                               *)
(*                                                                         *)
(* Spec runs the requests one at a time, SpecOk only those answered with   *)
(* success, SpecStorage adds a task handler that stops between its task    *)
(* write and its user write.  SpecConc runs two task handlers together,    *)
(* one awaited store call at a time, each on the documents it has read.    *)
(***************************************************************************)
EXTENDS Integers, Sequences, FiniteSets, TLC

\* ------------------------------------------------------------------ bounds
MaxTasks == 2          \* task documents ever inserted
MaxUsers == 2          \* user documents ever inserted
MaxList == 2           \* longest pendingTasks array a request carries

TaskIds == 1..MaxTasks
UserIds == 1..MaxUsers

\* ------------------------------------------------------------ value domains
undefined == "undefined"      \* a string field the request does not carry
Undef == -1                   \* an id or date field the request does not carry
EmptyId == 0                  \* the empty string "" in an id field
unassigned == "unassigned"
NotArray == <<Undef>>         \* a pendingTasks field that is not an array

\* The content fields of a task are never read by a handler, so the requests
\* of the actions carry one name, one deadline and no description; the
\* requests of the claims (ClaimNames, AnyPutBodies) also carry another name
\* and a description.
TaskNames == {"Ship"}
Deadlines == {1}
Descriptions == {undefined}
UserNames == {"Ann", "Bob"}
Emails == {"a@x.com", "b@x.com"}

OK == "OK"
ValidationError == "ValidationError"
NotFoundError == "NotFoundError"
ReferenceError == "ReferenceError"
ImmutableError == "ImmutableError"
ConflictError == "ConflictError"
OtherOwnerError == "OtherOwnerError"
StorageError == "StorageError"

\* the two collections and the ids issued so far; the requests that are being
\* handled step by step (procs) and the stores as they were when these
\* requests came in (start)
VARIABLES tasks, users, taskSeq, userSeq, procs, start

vars == <<tasks, users, taskSeq, userSeq, procs, start>>

\* the two requests that are in flight together
Procs == {"p", "q"}

\* ------------------------------------------------------------------ helpers
Put(f, k, v) == [x \in (DOMAIN f) \cup {k} |-> IF x = k THEN v ELSE f[x]]

Remove(f, k) == [x \in (DOMAIN f) \ {k} |-> f[x]]

Includes(s, x) == \E i \in 1..Len(s) : s[i] = x

\* Array.prototype.filter(id => id !== x)
FilterOut(s, x) == SelectSeq(s, LAMBDA y : y # x)

\* push in place of addToSet: the id is appended even when it is there
AddToSetPush(s, x) == Append(s, x)

\* addToSet left out: the array stays as it was
AddToSetDropped(s, x) == s

\* MongooseArray.addToSet
AddToSet(s, x) == IF Includes(s, x) THEN s ELSE Append(s, x)

Range(s) == {s[i] : i \in 1..Len(s)}

Resp(T, U, r) == [T |-> T, U |-> U, result |-> r]

\* the Task schema: a document of the tasks collection
TaskSchema(name, description, deadline, completed, assignedUser, assignedUserName) ==
  [name |-> name, description |-> description, deadline |-> deadline,
   completed |-> completed, assignedUser |-> assignedUser,
   assignedUserName |-> IF assignedUserName = undefined THEN unassigned
                        ELSE assignedUserName]

\* the User schema: a document of the users collection
UserSchema(name, email, pendingTasks) ==
  [name |-> name, email |-> email, pendingTasks |-> pendingTasks]

\* the unique index on email: saving doc under id collides with another user
EmailTaken(U, id, email) == \E o \in DOMAIN U : o # id /\ U[o].email = email

\* the cascade left out: no task is rewritten
UnassignManyDropped(T, ids, userId) == T

\* Task.updateMany({assignedUser: userId, _id in ids}, {$set: patch})
UnassignMany(T, ids, userId) ==
  [t \in DOMAIN T |->
     IF t \in ids /\ T[t].assignedUser = userId
     THEN [T[t] EXCEPT !.assignedUser = EmptyId, !.assignedUserName = unassigned]
     ELSE T[t]]

\* no id counts as dropped: the tasks left out of the new list stay assigned
RemovedDropped(oldPending, validTasks) == {}

\* [...oldPending].filter(x => !validTasks.has(x))
Removed(oldPending, validTasks) == oldPending \ validTasks

RenameMany(T, userId, name) ==
  [t \in DOMAIN T |->
     IF T[t].assignedUser = userId
     THEN [T[t] EXCEPT !.assignedUserName = name]
     ELSE T[t]]

\* `!name || !deadline`: POST /tasks needs both
MissingRequired(body) == body.name = undefined \/ body.deadline = Undef

\* no required field: a partial body goes through
MissingFieldsDropped(body) == FALSE

\* requiredFields.filter(f => !(f in req.body)): PUT /tasks/:id needs both
MissingFields(body) == body.name = undefined \/ body.deadline = Undef

\* the name hint not compared: any assignedUserName is stored as given
NameHintRejectedDropped(userName, hint) == FALSE

\* a supplied, non-empty assignedUserName that is not the user's name
NameHintRejected(userName, hint) ==
  hint # undefined /\ hint # "" /\ userName # hint

\* hasAssignedUserNameField ? assignedUserName : user.name
FinalAssignedUserName(userName, hint) ==
  IF hint # undefined /\ hint # "" THEN hint ELSE userName

\* presence not tested: a body without assignedUser counts as carrying ""
HasAssignedUserFieldAlways(body) == TRUE

\* Object.prototype.hasOwnProperty.call(req.body, 'assignedUser')
HasAssignedUserField(body) == body.assignedUser # Undef

\* the guard left out: completed tasks are updated like any other
CompletedGuardDropped(task) == FALSE

\* `if (task.completed)`: completed tasks cannot be modified
CompletedGuard(task) == task.completed

\* the ownership check left out: a task of another user is taken as valid
OwnedByOtherDropped(task, userId) == FALSE

\* `task.assignedUser && task.assignedUser !== userId`
OwnedByOther(task, userId) ==
  task.assignedUser # EmptyId /\ task.assignedUser # userId

\* the branch left out: an unchanged assignee's pendingTasks is not repaired
NeedsHealingDropped(isUserChanged, updatedTask) == FALSE

\* `!isUserChanged && updatedTask.assignedUser && !updatedTask.completed`
NeedsHealing(isUserChanged, updatedTask) ==
  ~isUserChanged /\ updatedTask.assignedUser # EmptyId /\ ~updatedTask.completed

\* the user store once PUT /tasks/:id has removed the task from the
\* pendingTasks of the old assignee, which it does before it saves the task
OldUserRemoved(T, U, taskId, body) ==
  LET newUserId == IF body.assignedUser = Undef THEN EmptyId
                   ELSE body.assignedUser
      oldUserId == T[taskId].assignedUser
      isUserChanged == HasAssignedUserField(body) /\ newUserId # oldUserId
  IN IF isUserChanged /\ oldUserId # EmptyId /\ oldUserId \in DOMAIN U
     THEN [U EXCEPT ![oldUserId].pendingTasks = FilterOut(@, taskId)]
     ELSE U

\* ---------------------------------------------------------- POST /tasks
TasksRoutePost(T, U, newId, body) ==
  IF MissingRequired(body)
  THEN Resp(T, U, ValidationError)
  ELSE
  LET hasUser == body.assignedUser # Undef /\ body.assignedUser # EmptyId
  IN
  IF hasUser /\ body.assignedUser \notin DOMAIN U
  THEN Resp(T, U, ReferenceError)
  ELSE IF hasUser
          /\ NameHintRejected(U[body.assignedUser].name, body.assignedUserName)
  THEN Resp(T, U, ValidationError)
  ELSE
  LET finalAssignedUserName ==
        IF ~hasUser THEN undefined
        ELSE FinalAssignedUserName(U[body.assignedUser].name,
                                   body.assignedUserName)
      completed == body.completed = "true"
      task == TaskSchema(body.name, body.description, body.deadline, completed,
                         IF hasUser THEN body.assignedUser ELSE EmptyId,
                         finalAssignedUserName)
      T1 == Put(T, newId, task)
      U1 == IF hasUser /\ ~completed
            THEN [U EXCEPT ![body.assignedUser].pendingTasks = AddToSet(@, newId)]
            ELSE U
  IN Resp(T1, U1, OK)

\* ------------------------------------------------------- PUT /tasks/:id
TasksRouteByIdPut(T, U, taskId, body) ==
  IF MissingFields(body)
  THEN Resp(T, U, ValidationError)
  ELSE IF taskId \notin DOMAIN T
  THEN Resp(T, U, NotFoundError)
  ELSE IF CompletedGuard(T[taskId])
  THEN Resp(T, U, ImmutableError)
  ELSE IF body.id # Undef /\ body.id # taskId
  THEN Resp(T, U, ValidationError)
  ELSE
  LET task == T[taskId]
      hasAssignedUserField == HasAssignedUserField(body)
      hasCompleted == body.completed \in {"true", "false"}
      isCompletedChanged == hasCompleted /\ (body.completed = "true") # task.completed
      newUserId == IF body.assignedUser = Undef THEN EmptyId
                   ELSE body.assignedUser
      oldUserId == task.assignedUser
      isUserChanged == hasAssignedUserField /\ newUserId # oldUserId
      \* remove from the old user's pendingTasks
      U1 == OldUserRemoved(T, U, taskId, body)
      assigns == isUserChanged /\ newUserId # EmptyId
  IN
  IF assigns /\ newUserId \notin DOMAIN U1
  THEN Resp(T, U1, ReferenceError)
  ELSE IF assigns
          /\ NameHintRejected(U1[newUserId].name, body.assignedUserName)
  THEN Resp(T, U1, ValidationError)
  ELSE
  LET task1 == IF ~isUserChanged THEN task
               ELSE IF newUserId = EmptyId
               THEN [task EXCEPT !.assignedUser = EmptyId,
                                 !.assignedUserName = unassigned]
               ELSE [task EXCEPT !.assignedUser = newUserId,
                                 !.assignedUserName =
                                    FinalAssignedUserName(
                                      U1[newUserId].name,
                                      body.assignedUserName)]
      updatedTask ==
        [task1 EXCEPT !.name = body.name,
                      !.description = IF body.description # undefined
                                      THEN body.description ELSE @,
                      !.deadline = body.deadline,
                      !.completed = IF hasCompleted THEN body.completed = "true"
                                    ELSE @]
      T1 == [T EXCEPT ![taskId] = updatedTask]
      \* maintain pendingTasks consistency
      U2 == IF assigns
            THEN IF ~updatedTask.completed
                 THEN [U1 EXCEPT ![newUserId].pendingTasks = AddToSet(@, taskId)]
                 ELSE U1
            ELSE IF NeedsHealing(isUserChanged, updatedTask)
                    /\ updatedTask.assignedUser \in DOMAIN U1
            THEN [U1 EXCEPT ![updatedTask.assignedUser].pendingTasks =
                                AddToSet(@, taskId)]
            ELSE U1
      \* if the task is marked complete, remove it from pendingTasks
      U3 == IF isCompletedChanged /\ updatedTask.completed
               /\ updatedTask.assignedUser # EmptyId
               /\ updatedTask.assignedUser \in DOMAIN U2
            THEN [U2 EXCEPT ![updatedTask.assignedUser].pendingTasks =
                                FilterOut(@, taskId)]
            ELSE U2
  IN Resp(T1, U3, OK)

\* ---------------------------------------------------- DELETE /tasks/:id
TasksRouteByIdDelete(T, U, taskId) ==
  IF taskId \notin DOMAIN T
  THEN Resp(T, U, NotFoundError)
  ELSE
  LET task == T[taskId]
      U1 == IF task.assignedUser # EmptyId /\ task.assignedUser \in DOMAIN U
            THEN [U EXCEPT ![task.assignedUser].pendingTasks = FilterOut(@, taskId)]
            ELSE U
  IN Resp(Remove(T, taskId), U1, OK)

\* ---------------------------------------------------------- POST /users
UsersRoutePost(T, U, newId, body) ==
  IF body.name = undefined \/ body.email = undefined
  THEN Resp(T, U, ValidationError)
  ELSE IF EmailTaken(U, newId, body.email)
  THEN Resp(T, U, ConflictError)
  ELSE Resp(T, Put(U, newId, UserSchema(body.name, body.email, <<>>)), OK)

\* ------------------------------------------------------- PUT /users/:id
\* the validation loop over the request's pendingTasks: the task store after
\* the iterations that ran, the ids collected in validTasks, and the error
\* that ended the loop early
\* an array in place of the Set: the id is kept each time the list names it
ValidTasksPush(validTasks, tid) == Append(validTasks, tid)

\* validTasks.add(tid) on a Set: an id the set holds is not added again
ValidTasksAdd(validTasks, tid) == AddToSet(validTasks, tid)

RECURSIVE ValidateLoop(_, _, _, _, _, _)
ValidateLoop(T, list, i, userId, userName, validTasks) ==
  IF i > Len(list)
  THEN [T |-> T, validTasks |-> validTasks, err |-> OK]
  ELSE
  LET tid == list[i] IN
  IF tid \notin DOMAIN T
  THEN [T |-> T, validTasks |-> validTasks, err |-> ReferenceError]
  ELSE IF OwnedByOther(T[tid], userId)
  THEN [T |-> T, validTasks |-> validTasks, err |-> OtherOwnerError]
  ELSE
  LET T1 == IF T[tid].assignedUser = EmptyId
            THEN [T EXCEPT ![tid].assignedUser = userId,
                           ![tid].assignedUserName = userName]
            ELSE T
  IN ValidateLoop(T1, list, i + 1, userId, userName,
                  ValidTasksAdd(validTasks, tid))

UsersRouteByIdPut(T, U, userId, body) ==
  IF userId \notin DOMAIN U
  THEN Resp(T, U, NotFoundError)
  ELSE
  LET user == U[userId]
      oldName == user.name
      oldPending == Range(user.pendingTasks)
      name1 == IF body.name # undefined THEN body.name ELSE user.name
      email1 == IF body.email # undefined THEN body.email ELSE user.email
      isArray == body.pendingTasks # NotArray
      loop == IF isArray
              THEN ValidateLoop(T, body.pendingTasks, 1, userId, name1, <<>>)
              ELSE [T |-> T, validTasks |-> user.pendingTasks, err |-> OK]
  IN
  IF loop.err # OK
  THEN Resp(loop.T, U, loop.err)
  ELSE
  LET removed == IF isArray THEN Removed(oldPending, Range(loop.validTasks))
                 ELSE {}
      T1 == UnassignMany(loop.T, removed, userId)
  IN
  IF EmailTaken(U, userId, email1)
  THEN Resp(T1, U, ConflictError)
  ELSE
  LET U1 == [U EXCEPT ![userId] = UserSchema(name1, email1, loop.validTasks)]
      T2 == IF body.name # undefined /\ body.name # oldName
            THEN RenameMany(T1, userId, body.name)
            ELSE T1
  IN Resp(T2, U1, OK)

\* ---------------------------------------------------- DELETE /users/:id
UsersRouteByIdDelete(T, U, userId) ==
  IF userId \notin DOMAIN U
  THEN Resp(T, U, NotFoundError)
  ELSE Resp(UnassignMany(T, DOMAIN T, userId), Remove(U, userId), OK)

\* ------------------------------------------------- requests in flight
\* A handler is a chain of awaited store calls; another request's calls can
\* run between any two of them.  A process keeps the request, the place the
\* handler has reached (pc), the documents it holds in memory (task, user)
\* and the flags it has computed.  A document is saved as a whole: the save
\* writes the copy in memory over the stored one (last writer wins).
Running == "running"

NoTask == TaskSchema(undefined, undefined, Undef, FALSE, EmptyId, undefined)

NoUser == [id |-> EmptyId, doc |-> UserSchema(undefined, undefined, <<>>)]

NoBody == [name |-> undefined, description |-> undefined, deadline |-> Undef,
           completed |-> undefined, assignedUser |-> Undef,
           assignedUserName |-> undefined, id |-> Undef]

Idle ==
  [op |-> "none", id |-> EmptyId, body |-> NoBody, pc |-> "idle",
   task |-> NoTask, user |-> NoUser, oldUserId |-> EmptyId,
   isUserChanged |-> FALSE, isCompletedChanged |-> FALSE, result |-> Running]

\* res.status(...).json(...): the handler has answered and its documents in
\* memory are gone
Answer(p, r) ==
  procs' = [procs EXCEPT ![p] = [Idle EXCEPT !.op = procs[p].op,
                                             !.id = procs[p].id,
                                             !.body = procs[p].body,
                                             !.pc = "done",
                                             !.result = r]]

\* the handler goes on to the store call at pc, holding user
Goto(p, pc, user) == procs' = [procs EXCEPT ![p].pc = pc, ![p].user = user]

\* const doc = await User.findById(id)
Held(U, id) == [id |-> id, doc |-> U[id]]

\* the save left out: the stored document stays as it was
SaveUserDropped(U, held, pendingTasks) == U

\* await doc.save() of a user document held in memory; the save of a
\* document that was deleted since it was read writes nothing
SaveUser(U, held, pendingTasks) ==
  IF held.id \in DOMAIN U
  THEN [U EXCEPT ![held.id] = [held.doc EXCEPT !.pendingTasks = pendingTasks]]
  ELSE U

\* the user document process p holds was deleted since p read it: its save
\* matches no stored document, and either returns or throws into the catch
\* block of the handler
SaveOfDeleted(p) == procs[p].user.id \notin DOMAIN users

\* ------------------------------------------------------------ the requests
\* the assignedUser and assignedUserName fields of a task request; a name hint
\* is only read when the request names a user
AssigneeFields ==
  (UserIds \X (UserNames \cup {undefined, ""}))
  \cup ({Undef, EmptyId} \X {undefined, "Ann"})

Body(name, description, deadline, completed, assignee, id) ==
  [name |-> name, description |-> description, deadline |-> deadline,
   completed |-> completed, assignedUser |-> assignee[1],
   assignedUserName |-> assignee[2], id |-> id]

\* bodies that carry the required fields
TaskBodies ==
  {Body(n, d, 1, c, a, Undef) :
     n \in TaskNames, d \in Descriptions, c \in {undefined, "true"},
     a \in AssigneeFields}
  \cup
  {Body(n, d, 1, "false", <<u, undefined>>, Undef) :
     n \in TaskNames, d \in Descriptions, u \in UserIds \cup {Undef}}

\* bodies that lack name, deadline or both
PartialBodies ==
  {Body(undefined, undefined, dl, c, <<u, undefined>>, Undef) :
     dl \in Deadlines \cup {Undef}, c \in {undefined, "true"},
     u \in UserIds \cup {Undef}}
  \cup
  {Body("Ship", undefined, Undef, c, <<u, undefined>>, Undef) :
     c \in {undefined, "true"}, u \in UserIds \cup {Undef}}

\* bodies that carry an _id
IdBodies ==
  {Body("Ship", undefined, 1, undefined, <<Undef, undefined>>, i) : i \in TaskIds}

TaskPostBodies == TaskBodies \cup PartialBodies

TaskPutBodies == TaskBodies \cup PartialBodies \cup IdBodies

Lists == UNION {[1..n -> TaskIds] : n \in 0..MaxList}

UserBodies ==
  [name : UserNames \cup {undefined},
   email : Emails \cup {undefined},
   pendingTasks : Lists \cup {NotArray}]

\* POST /users never reads pendingTasks
UserPostBodies ==
  [name : UserNames \cup {undefined},
   email : Emails \cup {undefined},
   pendingTasks : {NotArray, <<1>>}]

\* ------------------------------------------------------------------ actions
\* Requests are handled one at a time; a handler runs to its response.
Init ==
  /\ tasks = <<>>
  /\ users = <<>>
  /\ taskSeq = 0
  /\ userSeq = 0
  /\ procs = [p \in Procs |-> Idle]
  /\ start = Resp(<<>>, <<>>, OK)

\* the stores after a handler that answered r; okOnly keeps the successes only
Apply(r, okOnly) ==
  /\ okOnly => r.result = OK
  /\ tasks' = r.T
  /\ users' = r.U
  /\ UNCHANGED <<procs, start>>

TaskCreate(okOnly) ==
  /\ taskSeq < MaxTasks
  /\ \E body \in TaskPostBodies :
       LET r == TasksRoutePost(tasks, users, taskSeq + 1, body) IN
       /\ Apply(r, okOnly)
       /\ taskSeq' = IF r.result = OK THEN taskSeq + 1 ELSE taskSeq
  /\ UNCHANGED userSeq

TaskUpdate(okOnly) ==
  /\ \E taskId \in TaskIds, body \in TaskPutBodies :
       Apply(TasksRouteByIdPut(tasks, users, taskId, body), okOnly)
  /\ UNCHANGED <<taskSeq, userSeq>>

TaskDelete(okOnly) ==
  /\ \E taskId \in TaskIds :
       Apply(TasksRouteByIdDelete(tasks, users, taskId), okOnly)
  /\ UNCHANGED <<taskSeq, userSeq>>

UserCreate(okOnly) ==
  /\ userSeq < MaxUsers
  /\ \E body \in UserPostBodies :
       LET r == UsersRoutePost(tasks, users, userSeq + 1, body) IN
       /\ Apply(r, okOnly)
       /\ userSeq' = IF r.result = OK THEN userSeq + 1 ELSE userSeq
  /\ UNCHANGED taskSeq

UserUpdate(okOnly) ==
  /\ \E userId \in UserIds, body \in UserBodies :
       Apply(UsersRouteByIdPut(tasks, users, userId, body), okOnly)
  /\ UNCHANGED <<taskSeq, userSeq>>

UserDelete(okOnly) ==
  /\ \E userId \in UserIds :
       Apply(UsersRouteByIdDelete(tasks, users, userId), okOnly)
  /\ UNCHANGED <<taskSeq, userSeq>>

\* every request, whatever its response
Next ==
  \/ TaskCreate(FALSE)
  \/ TaskUpdate(FALSE)
  \/ TaskDelete(FALSE)
  \/ UserCreate(FALSE)
  \/ UserUpdate(FALSE)
  \/ UserDelete(FALSE)

Spec == Init /\ [][Next]_vars

\* only the requests that are answered with success
NextOk ==
  \/ TaskCreate(TRUE)
  \/ TaskUpdate(TRUE)
  \/ TaskDelete(TRUE)
  \/ UserCreate(TRUE)
  \/ UserUpdate(TRUE)
  \/ UserDelete(TRUE)

SpecOk == Init /\ [][NextOk]_vars

\* A storage failure between the writes of one handler: the task is saved,
\* the save of the user that follows is rejected, and the handler answers
\* with the error of its catch block.
TaskCreateStopped ==
  /\ taskSeq < MaxTasks
  /\ \E body \in TaskPostBodies :
       LET r == TasksRoutePost(tasks, users, taskSeq + 1, body) IN
       /\ r.result = OK
       /\ r.U # users
       /\ tasks' = r.T
  /\ taskSeq' = taskSeq + 1
  /\ UNCHANGED <<users, userSeq, procs, start>>

TaskUpdateStopped ==
  /\ \E taskId \in TaskIds, body \in TaskPutBodies :
       LET r == TasksRouteByIdPut(tasks, users, taskId, body)
           U1 == OldUserRemoved(tasks, users, taskId, body)
       IN
       /\ r.result = OK
       /\ r.U # U1
       /\ tasks' = r.T
       /\ users' = U1
  /\ UNCHANGED <<taskSeq, userSeq, procs, start>>

\* the successful requests and the storage failures
NextStorage ==
  \/ NextOk
  \/ TaskCreateStopped
  \/ TaskUpdateStopped

SpecStorage == Init /\ [][NextStorage]_vars

\* ------------------------------------------- POST /tasks, step by step
\* the checks of the request and User.findById(assignedUser)
PostFindUser(p) ==
  LET me == procs[p]
      body == me.body
      a == body.assignedUser
      hasUser == a # Undef /\ a # EmptyId
  IN
  /\ me.op = "POST" /\ me.pc = "begin"
  /\ IF MissingRequired(body)
     THEN Answer(p, ValidationError)
     ELSE IF hasUser /\ a \notin DOMAIN users
     THEN Answer(p, ReferenceError)
     ELSE IF hasUser /\ NameHintRejected(users[a].name, body.assignedUserName)
     THEN Answer(p, ValidationError)
     ELSE procs' = [procs EXCEPT
            ![p].pc = "saveTask",
            ![p].user = IF hasUser THEN Held(users, a) ELSE NoUser,
            ![p].task =
               TaskSchema(body.name, body.description, body.deadline,
                          body.completed = "true",
                          IF hasUser THEN a ELSE EmptyId,
                          IF hasUser
                          THEN FinalAssignedUserName(users[a].name,
                                                     body.assignedUserName)
                          ELSE undefined)]
  /\ UNCHANGED <<tasks, users, taskSeq, userSeq, start>>

\* task.save()
PostSaveTask(p) ==
  LET me == procs[p] IN
  /\ me.op = "POST" /\ me.pc = "saveTask"
  /\ tasks' = Put(tasks, me.id, me.task)
  /\ IF me.user.id # EmptyId /\ ~me.task.completed
     THEN Goto(p, "saveUser", me.user)
     ELSE Answer(p, OK)
  /\ UNCHANGED <<users, taskSeq, userSeq, start>>

\* validUser.pendingTasks.addToSet(id); validUser.save()
PostSaveUser(p) ==
  LET me == procs[p] IN
  /\ me.op = "POST" /\ me.pc = "saveUser"
  /\ users' = SaveUser(users, me.user, AddToSet(me.user.doc.pendingTasks, me.id))
  /\ \/ Answer(p, OK)
     \/ SaveOfDeleted(p) /\ Answer(p, StorageError)
  /\ UNCHANGED <<tasks, taskSeq, userSeq, start>>

\* ------------------------------------------- PUT /tasks/:id, step by step
\* (assignedUser || "").toString()
NewUserId(body) ==
  IF body.assignedUser = Undef THEN EmptyId ELSE body.assignedUser

\* where the handler goes once the old user's pendingTasks is dealt with
AfterOldUser(body) ==
  IF NewUserId(body) # EmptyId THEN "findNewUser" ELSE "saveTask"

\* `isCompletedChanged && updatedTask.completed && task.assignedUser`, the
\* last block of the handler
AfterMaintenance(p, me, task) ==
  IF me.isCompletedChanged /\ task.completed /\ task.assignedUser # EmptyId
  THEN procs' = [procs EXCEPT ![p].pc = "findAssigned", ![p].task = task,
                              ![p].user = NoUser]
  ELSE Answer(p, OK)

\* the checks of the request, Task.findById(taskId) and the flags
PutFindTask(p) ==
  LET me == procs[p]
      body == me.body
  IN
  /\ me.op = "PUT" /\ me.pc = "begin"
  /\ IF MissingFields(body)
     THEN Answer(p, ValidationError)
     ELSE IF me.id \notin DOMAIN tasks
     THEN Answer(p, NotFoundError)
     ELSE IF CompletedGuard(tasks[me.id])
     THEN Answer(p, ImmutableError)
     ELSE IF body.id # Undef /\ body.id # me.id
     THEN Answer(p, ValidationError)
     ELSE
     LET task == tasks[me.id]
         hasCompleted == body.completed \in {"true", "false"}
         newUserId == NewUserId(body)
         oldUserId == task.assignedUser
         isUserChanged == HasAssignedUserField(body) /\ newUserId # oldUserId
     IN procs' = [procs EXCEPT
          ![p].task = IF isUserChanged /\ newUserId = EmptyId
                      THEN [task EXCEPT !.assignedUser = EmptyId,
                                        !.assignedUserName = unassigned]
                      ELSE task,
          ![p].oldUserId = oldUserId,
          ![p].isUserChanged = isUserChanged,
          ![p].isCompletedChanged =
             hasCompleted /\ (body.completed = "true") # task.completed,
          ![p].pc = IF isUserChanged /\ oldUserId # EmptyId THEN "findOldUser"
                    ELSE IF isUserChanged THEN AfterOldUser(body)
                    ELSE "saveTask"]
  /\ UNCHANGED <<tasks, users, taskSeq, userSeq, start>>

\* const oldUser = await User.findById(oldUserId)
PutFindOldUser(p) ==
  LET me == procs[p] IN
  /\ me.op = "PUT" /\ me.pc = "findOldUser"
  /\ IF me.oldUserId \in DOMAIN users
     THEN Goto(p, "saveOldUser", Held(users, me.oldUserId))
     ELSE Goto(p, AfterOldUser(me.body), NoUser)
  /\ UNCHANGED <<tasks, users, taskSeq, userSeq, start>>

\* oldUser.pendingTasks = oldUser.pendingTasks.filter(...); oldUser.save()
PutSaveOldUser(p) ==
  LET me == procs[p] IN
  /\ me.op = "PUT" /\ me.pc = "saveOldUser"
  /\ users' = SaveUser(users, me.user, FilterOut(me.user.doc.pendingTasks, me.id))
  /\ \/ Goto(p, AfterOldUser(me.body), NoUser)
     \/ SaveOfDeleted(p) /\ Answer(p, StorageError)
  /\ UNCHANGED <<tasks, taskSeq, userSeq, start>>

\* newAssignedUser = await User.findById(newUserId) and its validation
PutFindNewUser(p) ==
  LET me == procs[p]
      new == NewUserId(me.body)
  IN
  /\ me.op = "PUT" /\ me.pc = "findNewUser"
  /\ IF new \notin DOMAIN users
     THEN Answer(p, ReferenceError)
     ELSE IF NameHintRejected(users[new].name, me.body.assignedUserName)
     THEN Answer(p, ValidationError)
     ELSE procs' = [procs EXCEPT
            ![p].pc = "saveTask",
            ![p].user = Held(users, new),
            ![p].task = [me.task EXCEPT
               !.assignedUser = new,
               !.assignedUserName =
                  FinalAssignedUserName(users[new].name,
                                        me.body.assignedUserName)]]
  /\ UNCHANGED <<tasks, users, taskSeq, userSeq, start>>

\* the editable fields, task.save() and the choice of the maintenance branch
PutSaveTask(p) ==
  LET me == procs[p]
      body == me.body
      updatedTask ==
        [me.task EXCEPT
           !.name = body.name,
           !.description = IF body.description # undefined
                           THEN body.description ELSE @,
           !.deadline = body.deadline,
           !.completed = IF body.completed \in {"true", "false"}
                         THEN body.completed = "true" ELSE @]
  IN
  /\ me.op = "PUT" /\ me.pc = "saveTask"
  /\ me.id \in DOMAIN tasks
  /\ tasks' = [tasks EXCEPT ![me.id] = updatedTask]
  /\ IF me.isUserChanged /\ NewUserId(body) # EmptyId
     THEN IF ~updatedTask.completed
             /\ ~Includes(me.user.doc.pendingTasks, me.id)
          THEN procs' = [procs EXCEPT ![p].pc = "saveNewUser",
                                      ![p].task = updatedTask]
          ELSE AfterMaintenance(p, me, updatedTask)
     ELSE IF NeedsHealing(me.isUserChanged, updatedTask)
     THEN procs' = [procs EXCEPT ![p].pc = "findCurrentUser",
                                 ![p].task = updatedTask]
     ELSE AfterMaintenance(p, me, updatedTask)
  /\ UNCHANGED <<users, taskSeq, userSeq, start>>

\* newAssignedUser.pendingTasks.addToSet(taskId); newAssignedUser.save()
PutSaveNewUser(p) ==
  LET me == procs[p] IN
  /\ me.op = "PUT" /\ me.pc = "saveNewUser"
  /\ users' = SaveUser(users, me.user, AddToSet(me.user.doc.pendingTasks, me.id))
  /\ \/ AfterMaintenance(p, me, me.task)
     \/ SaveOfDeleted(p) /\ Answer(p, StorageError)
  /\ UNCHANGED <<tasks, taskSeq, userSeq, start>>

\* currentUser = await User.findById(updatedTask.assignedUser)
PutFindCurrentUser(p) ==
  LET me == procs[p]
      cur == me.task.assignedUser
  IN
  /\ me.op = "PUT" /\ me.pc = "findCurrentUser"
  /\ IF cur \in DOMAIN users /\ ~Includes(users[cur].pendingTasks, me.id)
     THEN Goto(p, "saveCurrentUser", Held(users, cur))
     ELSE AfterMaintenance(p, me, me.task)
  /\ UNCHANGED <<tasks, users, taskSeq, userSeq, start>>

\* currentUser.pendingTasks.addToSet(taskId); currentUser.save()
PutSaveCurrentUser(p) ==
  LET me == procs[p] IN
  /\ me.op = "PUT" /\ me.pc = "saveCurrentUser"
  /\ users' = SaveUser(users, me.user, AddToSet(me.user.doc.pendingTasks, me.id))
  /\ \/ AfterMaintenance(p, me, me.task)
     \/ SaveOfDeleted(p) /\ Answer(p, StorageError)
  /\ UNCHANGED <<tasks, taskSeq, userSeq, start>>

\* const assigned = await User.findById(task.assignedUser)
PutFindAssigned(p) ==
  LET me == procs[p]
      a == me.task.assignedUser
  IN
  /\ me.op = "PUT" /\ me.pc = "findAssigned"
  /\ IF a \in DOMAIN users
     THEN Goto(p, "saveAssigned", Held(users, a))
     ELSE Answer(p, OK)
  /\ UNCHANGED <<tasks, users, taskSeq, userSeq, start>>

\* assigned.pendingTasks = assigned.pendingTasks.filter(...); assigned.save()
PutSaveAssigned(p) ==
  LET me == procs[p] IN
  /\ me.op = "PUT" /\ me.pc = "saveAssigned"
  /\ users' = SaveUser(users, me.user, FilterOut(me.user.doc.pendingTasks, me.id))
  /\ \/ Answer(p, OK)
     \/ SaveOfDeleted(p) /\ Answer(p, StorageError)
  /\ UNCHANGED <<tasks, taskSeq, userSeq, start>>

\* ---------------------------------------- DELETE /tasks/:id, step by step
\* Task.findById(taskId)
DeleteFindTask(p) ==
  LET me == procs[p] IN
  /\ me.op = "DELETE" /\ me.pc = "begin"
  /\ IF me.id \notin DOMAIN tasks
     THEN Answer(p, NotFoundError)
     ELSE procs' = [procs EXCEPT
            ![p].task = tasks[me.id],
            ![p].pc = IF tasks[me.id].assignedUser # EmptyId
                      THEN "findUser" ELSE "deleteTask"]
  /\ UNCHANGED <<tasks, users, taskSeq, userSeq, start>>

\* User.findById(task.assignedUser)
DeleteFindUser(p) ==
  LET me == procs[p]
      a == me.task.assignedUser
  IN
  /\ me.op = "DELETE" /\ me.pc = "findUser"
  /\ IF a \in DOMAIN users
     THEN Goto(p, "saveUser", Held(users, a))
     ELSE Goto(p, "deleteTask", NoUser)
  /\ UNCHANGED <<tasks, users, taskSeq, userSeq, start>>

\* user.pendingTasks = user.pendingTasks.filter(...); user.save()
DeleteSaveUser(p) ==
  LET me == procs[p] IN
  /\ me.op = "DELETE" /\ me.pc = "saveUser"
  /\ users' = SaveUser(users, me.user, FilterOut(me.user.doc.pendingTasks, me.id))
  /\ \/ Goto(p, "deleteTask", NoUser)
     \/ SaveOfDeleted(p) /\ Answer(p, StorageError)
  /\ UNCHANGED <<tasks, taskSeq, userSeq, start>>

\* task.deleteOne()
DeleteDeleteOne(p) ==
  LET me == procs[p] IN
  /\ me.op = "DELETE" /\ me.pc = "deleteTask"
  /\ tasks' = Remove(tasks, me.id)
  /\ Answer(p, OK)
  /\ UNCHANGED <<users, taskSeq, userSeq, start>>

\* ---------------------------------------- DELETE /users/:id, step by step
\* User.findByIdAndDelete(userId)
UserDeleteFindByIdAndDelete(p) ==
  LET me == procs[p] IN
  /\ me.op = "DELETE_USER" /\ me.pc = "begin"
  /\ IF me.id \notin DOMAIN users
     THEN Answer(p, NotFoundError) /\ UNCHANGED users
     ELSE users' = Remove(users, me.id) /\ Goto(p, "updateMany", NoUser)
  /\ UNCHANGED <<tasks, taskSeq, userSeq, start>>

\* Task.updateMany({assignedUser: userId}, {$set: ...})
UserDeleteUpdateMany(p) ==
  LET me == procs[p] IN
  /\ me.op = "DELETE_USER" /\ me.pc = "updateMany"
  /\ tasks' = UnassignMany(tasks, DOMAIN tasks, me.id)
  /\ Answer(p, OK)
  /\ UNCHANGED <<users, taskSeq, userSeq, start>>

\* ----------------------------------------------- two requests in flight
\* the task requests that are handled step by step: with or without an
\* assignee, completing the task or not
ConcBodies ==
  {Body("Ship", undefined, 1, c, <<a, undefined>>, Undef) :
     c \in {undefined, "true"}, a \in UserIds \cup {Undef, EmptyId}}

\* the requests on the stored tasks 1..k, and the creation of task newId
ConcRequests(k, newId) ==
  {[op |-> "POST", id |-> newId, body |-> b] :
     b \in {c \in ConcBodies : c.assignedUser # EmptyId /\ newId <= MaxTasks}}
  \cup {[op |-> "PUT", id |-> t, body |-> b] : t \in 1..k, b \in ConcBodies}
  \cup {[op |-> "DELETE", id |-> t, body |-> NoBody] : t \in 1..k}

\* the deletions of the stored users
UserDeletes == {[op |-> "DELETE_USER", id |-> u, body |-> NoBody] : u \in UserIds}

IsTaskOp(r) == r.op \in {"POST", "PUT", "DELETE"}

NameOf(u) == IF u = 1 THEN "Ann" ELSE "Bob"

EmailOf(u) == IF u = 1 THEN "a@x.com" ELSE IF u = 2 THEN "b@x.com" ELSE "c@x.com"

\* the stores after the users and then the tasks 1..k were created one by
\* one, task t for assignee assign[t] and completed or not as comp[t] says
StoredTasks(k, assign, comp) ==
  [t \in 1..k |->
     TaskSchema("Ship", undefined, 1, comp[t], assign[t],
                IF assign[t] = EmptyId THEN undefined ELSE NameOf(assign[t]))]

StoredUsers(k, assign, comp) ==
  [u \in UserIds |->
     UserSchema(NameOf(u), EmailOf(u),
                SelectSeq([t \in 1..k |-> t],
                          LAMBDA t : assign[t] = u /\ ~comp[t]))]

\* Two requests come in together when the stores are consistent: two task
\* requests, on two different tasks or both updates of one task, or a task
\* request and the deletion of a user.  The id of a new task is chosen when
\* the request comes in.
InitConc ==
  \E k \in 0..MaxTasks :
    \E assign \in [1..k -> UserIds \cup {EmptyId}], comp \in [1..k -> BOOLEAN] :
      \E rp \in ConcRequests(k, k + 1) \cup UserDeletes :
        \E rq \in ConcRequests(k, IF rp.op = "POST" THEN k + 2 ELSE k + 1)
                     \cup UserDeletes :
          /\ IF IsTaskOp(rp) /\ IsTaskOp(rq)
             THEN rp.id # rq.id \/ (rp.op = "PUT" /\ rq.op = "PUT")
             ELSE IsTaskOp(rp) \/ IsTaskOp(rq)
          /\ tasks = StoredTasks(k, assign, comp)
          /\ users = StoredUsers(k, assign, comp)
          /\ taskSeq = k + Cardinality({r \in {rp, rq} : r.op = "POST"})
          /\ userSeq = MaxUsers
          /\ start = Resp(tasks, users, OK)
          /\ procs = [p \in Procs |->
                        LET r == IF p = "p" THEN rp ELSE rq IN
                        [Idle EXCEPT !.op = r.op, !.id = r.id,
                                     !.body = r.body, !.pc = "begin"]]

\* one store call of one of the two handlers
NextConc ==
  \E p \in Procs :
    \/ PostFindUser(p)
    \/ PostSaveTask(p)
    \/ PostSaveUser(p)
    \/ PutFindTask(p)
    \/ PutFindOldUser(p)
    \/ PutSaveOldUser(p)
    \/ PutFindNewUser(p)
    \/ PutSaveTask(p)
    \/ PutSaveNewUser(p)
    \/ PutFindCurrentUser(p)
    \/ PutSaveCurrentUser(p)
    \/ PutFindAssigned(p)
    \/ PutSaveAssigned(p)
    \/ DeleteFindTask(p)
    \/ DeleteFindUser(p)
    \/ DeleteSaveUser(p)
    \/ DeleteDeleteOne(p)
    \/ UserDeleteFindByIdAndDelete(p)
    \/ UserDeleteUpdateMany(p)

SpecConc == InitConc /\ [][NextConc]_vars

\* both requests have been answered
BothDone == \A p \in Procs : procs[p].pc = "done"

\* ------------------------------------------------------------------ claims
InPending(U, u, t) == u \in DOMAIN U /\ Includes(U[u].pendingTasks, t)

\* task names a request of a claim may carry: the stored name and another one
ClaimNames == TaskNames \cup {"Plan"}

\* a task request with nothing but completed = true
OnlyCompleted ==
  Body(undefined, undefined, Undef, "true", <<Undef, undefined>>, Undef)

\* task requests with name, deadline and completed = true and no assignedUser
CompletingBodies ==
  {Body(n, d, dl, "true", <<Undef, undefined>>, Undef) :
     n \in ClaimNames, d \in {undefined, "d"}, dl \in Deadlines}

\* every task request of the model, and the same with another name or a
\* description
AnyPutBodies ==
  TaskPutBodies
  \cup {[b EXCEPT !.name = "Plan"] : b \in TaskBodies}
  \cup {[b EXCEPT !.description = "d"] : b \in TaskBodies}

\* C1: after any sequence of successful operations, every task that is
\* assigned and not completed is in the pendingTasks of its assignee.
C1_ForwardConsistency ==
  \A t \in DOMAIN tasks :
    (tasks[t].assignedUser # EmptyId /\ ~tasks[t].completed)
      => InPending(users, tasks[t].assignedUser, t)

\* C1 witness: both users were created, one task was handed from one user to
\* the other or assigned, a second task exists, and the invariant's case holds
\* for a task of the second user.
C1_Witness ==
  /\ taskSeq = MaxTasks
  /\ DOMAIN users = UserIds
  /\ \E t \in DOMAIN tasks :
       /\ tasks[t].assignedUser = 2
       /\ ~tasks[t].completed
       /\ InPending(users, 2, t)
  /\ \E t \in DOMAIN tasks : tasks[t].assignedUser = 1 /\ tasks[t].completed

\* C2: every id in a user's pendingTasks is an existing, non-completed task
\* that references that user.
C2_BackwardConsistency ==
  \A u \in DOMAIN users : \A x \in Range(users[u].pendingTasks) :
    x \in DOMAIN tasks /\ ~tasks[x].completed /\ tasks[x].assignedUser = u

\* C3: once a task is completed, no step changes any of its fields while the
\* task exists.
C3_CompletedImmutable ==
  [][\A t \in DOMAIN tasks :
       (tasks[t].completed /\ t \in DOMAIN tasks') => tasks'[t] = tasks[t]]_vars

\* C4: every task carries the current name of its assignee, or "unassigned"
\* when it has none.
C4_NameConsistency ==
  \A t \in DOMAIN tasks :
    IF tasks[t].assignedUser = EmptyId
    THEN tasks[t].assignedUserName = unassigned
    ELSE /\ tasks[t].assignedUser \in DOMAIN users
         /\ tasks[t].assignedUserName = users[tasks[t].assignedUser].name

\* C5: a successful task Update that takes completed from false to true leaves
\* the task id in no user's pendingTasks, with or without a reassignment in
\* the same request.
C5_CompletingRemoves ==
  \A t \in DOMAIN tasks : \A body \in AnyPutBodies :
    LET r == TasksRouteByIdPut(tasks, users, t, body) IN
    (~tasks[t].completed /\ r.result = OK /\ r.T[t].completed)
      => \A u \in DOMAIN r.U : ~Includes(r.U[u].pendingTasks, t)

\* C6 as stated: for a non-completed task assigned to an existing user, the
\* request with only completed = true succeeds, completes the task, changes
\* no other field and leaves the id out of the user's pendingTasks.
C6_PartialPayloadAccepted ==
  \A t \in DOMAIN tasks :
    (~tasks[t].completed /\ tasks[t].assignedUser \in DOMAIN users)
      => LET r == TasksRouteByIdPut(tasks, users, t, OnlyCompleted) IN
         /\ r.result = OK
         /\ r.T = [tasks EXCEPT ![t].completed = TRUE]
         /\ ~InPending(r.U, tasks[t].assignedUser, t)

\* C6 amended: for a non-completed task assigned to an existing user, the
\* request with only completed = true is answered ValidationError and changes
\* nothing; a request with name, deadline and completed = true (and no
\* assignedUser) succeeds, completes the task, stores the request's name,
\* deadline and description, changes no other field and no other task, and
\* leaves the id out of the user's pendingTasks.
C6_CompleteNeedsRequiredFields ==
  \A t \in DOMAIN tasks :
    (~tasks[t].completed /\ tasks[t].assignedUser \in DOMAIN users)
      => /\ TasksRouteByIdPut(tasks, users, t, OnlyCompleted)
              = Resp(tasks, users, ValidationError)
         /\ \A body \in CompletingBodies :
              LET r == TasksRouteByIdPut(tasks, users, t, body)
                  u == tasks[t].assignedUser
              IN
              /\ r.result = OK
              /\ r.T = [tasks EXCEPT
                          ![t].completed = TRUE,
                          ![t].name = body.name,
                          ![t].deadline = body.deadline,
                          ![t].description =
                             IF body.description = undefined THEN @
                             ELSE body.description]
              /\ r.U = [users EXCEPT ![u].pendingTasks =
                                        SelectSeq(@, LAMBDA y : y # t)]
              /\ ~InPending(r.U, u, t)

\* C6 witness: a non-completed task that is in the pendingTasks of its
\* assignee, which a request with the required fields completes.
C6_Witness ==
  \E t \in DOMAIN tasks :
    /\ ~tasks[t].completed
    /\ InPending(users, tasks[t].assignedUser, t)
    /\ \E body \in CompletingBodies :
         /\ body.name # tasks[t].name
         /\ TasksRouteByIdPut(tasks, users, t, body).result = OK

\* C7 as stated: task Update on a completed task answers ImmutableError for
\* every request and leaves both stores as they were.
C7_AlwaysImmutableError ==
  \A t \in DOMAIN tasks : \A body \in AnyPutBodies :
    tasks[t].completed
      => TasksRouteByIdPut(tasks, users, t, body)
           = Resp(tasks, users, ImmutableError)

\* C7 amended: task Update on a completed task leaves both stores as they
\* were for every request; it answers ImmutableError when the request carries
\* name and deadline, and ValidationError (missing required field) when it
\* lacks either.
C7_CompletedRejectedWithoutEffect ==
  \A t \in DOMAIN tasks : \A body \in AnyPutBodies :
    tasks[t].completed
      => TasksRouteByIdPut(tasks, users, t, body)
           = Resp(tasks, users,
                  IF body.name = undefined \/ body.deadline = Undef
                  THEN ValidationError ELSE ImmutableError)

\* C7 witness: a completed task that still references an existing user, and
\* a request that would rename, reopen and reassign it.
C7_Witness ==
  \E t \in DOMAIN tasks : \E u, v \in DOMAIN users :
    /\ u # v
    /\ tasks[t].completed
    /\ tasks[t].assignedUser = u
    /\ TasksRouteByIdPut(tasks, users, t,
         Body("Plan", "d", 1, "false", <<v, undefined>>, Undef)).result
         = ImmutableError

\* C8: user Delete of an existing user removes the user, unassigns exactly
\* the tasks that referenced it and leaves every other task as it was; user
\* Delete of an unknown id answers NotFoundError and changes nothing.
C8_UserDeleteCascade ==
  \A u \in UserIds :
    LET r == UsersRouteByIdDelete(tasks, users, u) IN
    IF u \in DOMAIN users
    THEN /\ r.result = OK
         /\ u \notin DOMAIN r.U
         /\ DOMAIN r.T = DOMAIN tasks
         /\ \A t \in DOMAIN tasks :
              /\ r.T[t].assignedUser # u
              /\ r.T[t] = IF tasks[t].assignedUser = u
                          THEN [tasks[t] EXCEPT !.assignedUser = EmptyId,
                                                !.assignedUserName = unassigned]
                          ELSE tasks[t]
    ELSE r = Resp(tasks, users, NotFoundError)

\* C8 witness: an existing user referenced by one task, beside a task that
\* references the other user.
C8_Witness ==
  \E u, v \in DOMAIN users : \E t, o \in DOMAIN tasks :
    /\ u # v
    /\ tasks[t].assignedUser = u
    /\ tasks[o].assignedUser = v
    /\ UsersRouteByIdDelete(tasks, users, u).result = OK

\* the user requests whose pendingTasks array names task t
ListsNaming(t) ==
  {body \in UserBodies :
     body.pendingTasks # NotArray /\ t \in Range(body.pendingTasks)}

\* C9 as stated: user Update of u with a pendingTasks array naming a
\* non-completed task of another user v succeeds and moves the task to u.
C9_TakesOver ==
  \A u \in DOMAIN users : \A t \in DOMAIN tasks : \A body \in ListsNaming(t) :
    (~tasks[t].completed /\ tasks[t].assignedUser \notin {EmptyId, u})
      => LET r == UsersRouteByIdPut(tasks, users, u, body)
             v == tasks[t].assignedUser
         IN
         /\ r.result = OK
         /\ r.T[t].assignedUser = u
         /\ r.T[t].assignedUserName = r.U[u].name
         /\ ~InPending(r.U, v, t)
         /\ InPending(r.U, u, t)

\* C9 amended: user Update of u with a pendingTasks array naming a
\* non-completed task of another user v fails (the task is assigned to
\* another user, or an earlier id of the array does not exist), leaves the
\* task with v and leaves the user store, so v.pendingTasks and
\* u.pendingTasks, as it was.
C9_OtherOwnerRejected ==
  \A u \in DOMAIN users : \A t \in DOMAIN tasks : \A body \in ListsNaming(t) :
    (~tasks[t].completed /\ tasks[t].assignedUser \notin {EmptyId, u})
      => LET r == UsersRouteByIdPut(tasks, users, u, body) IN
         /\ r.result \in {OtherOwnerError, ReferenceError}
         /\ (body.pendingTasks[1] = t => r.result = OtherOwnerError)
         /\ r.T[t] = tasks[t]
         /\ r.U = users

\* C9 witness: a pending task of v, and a user u whose Update names it.
C9_Witness ==
  \E u, v \in DOMAIN users : \E t \in DOMAIN tasks :
    /\ u # v
    /\ tasks[t].assignedUser = v
    /\ ~tasks[t].completed
    /\ InPending(users, v, t)
    /\ UsersRouteByIdPut(tasks, users, u,
         [name |-> undefined, email |-> undefined,
          pendingTasks |-> <<t>>]).result = OtherOwnerError

\* C10: user Update with a pendingTasks array naming a completed task fails
\* with ImmutableError and changes neither that task nor the user's
\* pendingTasks.
C10_RejectsCompleted ==
  \A u \in DOMAIN users : \A t \in DOMAIN tasks : \A body \in ListsNaming(t) :
    tasks[t].completed
      => LET r == UsersRouteByIdPut(tasks, users, u, body) IN
         /\ r.result = ImmutableError
         /\ r.T[t] = tasks[t]
         /\ r.U[u].pendingTasks = users[u].pendingTasks

\* C11: user Create with a pendingTasks list of existing, non-completed task
\* ids that succeeds leaves the new user's pendingTasks equal to that set of
\* ids, every listed task assigned to the new user under the new user's name,
\* and the id in no other user's pendingTasks.
C11_CreateWithPendingTasks ==
  \A body \in UserPostBodies :
    LET new == userSeq + 1
        r == UsersRoutePost(tasks, users, new, body)
        L == Range(body.pendingTasks)
    IN
    (/\ body.pendingTasks # NotArray
     /\ \A t \in L : t \in DOMAIN tasks /\ ~tasks[t].completed
     /\ r.result = OK)
      => /\ Range(r.U[new].pendingTasks) = L
         /\ \A t \in L :
              /\ r.T[t].assignedUser = new
              /\ r.T[t].assignedUserName = r.U[new].name
              /\ \A o \in DOMAIN r.U \ {new} : ~InPending(r.U, o, t)

\* C12: a successful user Update of u with a pendingTasks list L leaves
\* u.pendingTasks equal to the set of ids in L; every task whose id was in
\* u.pendingTasks before, is not in L and referenced u ends unassigned (and
\* otherwise as it was); a task that was in u.pendingTasks, is not in L and
\* did not reference u is left unchanged.
C12_DetachesDropped ==
  \A u \in DOMAIN users : \A body \in UserBodies :
    LET r == UsersRouteByIdPut(tasks, users, u, body)
        L == Range(body.pendingTasks)
    IN
    (body.pendingTasks # NotArray /\ r.result = OK)
      => /\ Range(r.U[u].pendingTasks) = L
         /\ \A t \in (Range(users[u].pendingTasks) \cap DOMAIN tasks) \ L :
              r.T[t] = IF tasks[t].assignedUser = u
                       THEN [tasks[t] EXCEPT !.assignedUser = EmptyId,
                                             !.assignedUserName = unassigned]
                       ELSE tasks[t]

\* C12 witness: u.pendingTasks holds a task that references u and a task
\* that no longer does, and a user Update of u that keeps neither succeeds.
C12_Witness ==
  \E u \in DOMAIN users : \E t, o \in DOMAIN tasks :
    /\ t # o
    /\ InPending(users, u, t) /\ tasks[t].assignedUser = u
    /\ InPending(users, u, o) /\ tasks[o].assignedUser # u
    /\ UsersRouteByIdPut(tasks, users, u,
         [name |-> undefined, email |-> undefined,
          pendingTasks |-> <<>>]).result = OK

\* C13: a successful task Update whose request carries no assignedUser leaves
\* the task's assignedUser and assignedUserName as they were and removes the
\* task id from no user's pendingTasks, unless the same request completes the
\* task; a successful task Update unassigns an assigned task only when its
\* request carries assignedUser with the empty value, and such a request
\* leaves the task unassigned under the name "unassigned".
C13_ExplicitPresence ==
  \A t \in DOMAIN tasks : \A body \in AnyPutBodies :
    LET r == TasksRouteByIdPut(tasks, users, t, body) IN
    r.result = OK
      => /\ body.assignedUser = Undef
              => /\ r.T[t].assignedUser = tasks[t].assignedUser
                 /\ r.T[t].assignedUserName = tasks[t].assignedUserName
                 /\ \A u \in DOMAIN users :
                      (InPending(users, u, t) /\ ~InPending(r.U, u, t))
                        => (~tasks[t].completed /\ r.T[t].completed)
         /\ (tasks[t].assignedUser # EmptyId /\ r.T[t].assignedUser = EmptyId)
              => body.assignedUser = EmptyId
         /\ body.assignedUser = EmptyId
              => /\ r.T[t].assignedUser = EmptyId
                 /\ r.T[t].assignedUserName = unassigned

\* C13 witness: a pending task of an existing user, for which both a request
\* without assignedUser (with a name hint) and a request with the empty
\* assignedUser succeed.
C13_Witness ==
  \E t \in DOMAIN tasks : \E u \in DOMAIN users :
    /\ tasks[t].assignedUser = u
    /\ ~tasks[t].completed
    /\ InPending(users, u, t)
    /\ TasksRouteByIdPut(tasks, users, t,
         Body("Ship", undefined, 1, undefined, <<Undef, "Ann">>, Undef)).result
         = OK
    /\ TasksRouteByIdPut(tasks, users, t,
         Body("Ship", undefined, 1, undefined, <<EmptyId, undefined>>, Undef)).result
         = OK

\* C14: task Create with an assignedUser that is no existing user, or with a
\* non-empty assignedUserName that is not the name of the user assignedUser
\* names, fails, creates no task and changes no user's pendingTasks; task
\* Create with name, deadline, an existing assignedUser and the empty string
\* as assignedUserName succeeds and stores the user's name.
C14_CreateRejectsBadReferences ==
  \A body \in TaskPostBodies :
    LET new == taskSeq + 1
        r == TasksRoutePost(tasks, users, new, body)
        a == body.assignedUser
    IN
    /\ (/\ a \notin {Undef, EmptyId}
        /\ \/ a \notin DOMAIN users
           \/ /\ body.assignedUserName \notin {undefined, ""}
              /\ body.assignedUserName # users[a].name)
         => /\ r.result \in {ReferenceError, ValidationError}
            /\ r.T = tasks
            /\ \A u \in DOMAIN users :
                 u \in DOMAIN r.U /\ r.U[u].pendingTasks = users[u].pendingTasks
    /\ (/\ a \in DOMAIN users
        /\ body.assignedUserName = ""
        /\ body.name # undefined /\ body.deadline # Undef)
         => /\ r.result = OK
            /\ r.T[new].assignedUser = a
            /\ r.T[new].assignedUserName = users[a].name

\* C14 witness: one user exists and the other id names no user; a request
\* naming the missing user, a request naming the user under another name and
\* a request naming the user under the empty name are answered in three
\* different ways.
C14_Witness ==
  /\ taskSeq < MaxTasks
  /\ \E u \in DOMAIN users : \E v \in UserIds \ DOMAIN users :
       \E n \in UserNames \ {users[u].name} :
         /\ TasksRoutePost(tasks, users, taskSeq + 1,
              Body("Ship", undefined, 1, undefined, <<v, undefined>>, Undef)).result
              = ReferenceError
         /\ TasksRoutePost(tasks, users, taskSeq + 1,
              Body("Ship", undefined, 1, undefined, <<u, n>>, Undef)).result
              = ValidationError
         /\ TasksRoutePost(tasks, users, taskSeq + 1,
              Body("Ship", undefined, 1, undefined, <<u, "">>, Undef)).result
              = OK

\* how many times id x occurs in array s
Count(s, x) == Cardinality({i \in 1..Len(s) : s[i] = x})

\* the task requests that name assignee u and carry the name and deadline of
\* the stored task, without completing it
SameAssigneeBodies(task, u) ==
  {Body(task.name, d, task.deadline, c, <<u, h>>, Undef) :
     d \in {undefined, "d"}, c \in {undefined, "false"},
     h \in UserNames \cup {undefined, ""}}

\* C15: for a non-completed task assigned to an existing user u, a task
\* Update that names the same assignedUser u and the task's name and deadline
\* succeeds, leaves the task id exactly once in u.pendingTasks, leaves every
\* other user's pendingTasks and the task's assignedUser, assignedUserName
\* and completed as they were; the same Update applied a second time changes
\* nothing more.
C15_SameAssigneeIdempotent ==
  \A t \in DOMAIN tasks :
    LET u == tasks[t].assignedUser IN
    (~tasks[t].completed /\ u \in DOMAIN users)
      => \A body \in SameAssigneeBodies(tasks[t], u) :
           LET r == TasksRouteByIdPut(tasks, users, t, body)
               r2 == TasksRouteByIdPut(r.T, r.U, t, body)
           IN
           /\ r.result = OK
           /\ Count(r.U[u].pendingTasks, t) = 1
           /\ \A o \in DOMAIN users \ {u} :
                r.U[o].pendingTasks = users[o].pendingTasks
           /\ DOMAIN r.U = DOMAIN users
           /\ r.T[t].assignedUser = u
           /\ r.T[t].assignedUserName = tasks[t].assignedUserName
           /\ r.T[t].completed = tasks[t].completed
           /\ r2 = Resp(r.T, r.U, OK)

\* C15 witness: a pending task of u that is already in u.pendingTasks, beside
\* another user with a pending task of its own.
C15_Witness ==
  \E t, o \in DOMAIN tasks : \E u, v \in DOMAIN users :
    /\ u # v
    /\ tasks[t].assignedUser = u /\ ~tasks[t].completed
    /\ InPending(users, u, t)
    /\ InPending(users, v, o)
    /\ \A body \in SameAssigneeBodies(tasks[t], u) :
         TasksRouteByIdPut(tasks, users, t, body).result = OK

\* C16: a task Update on a non-completed task assigned to u that asks for a
\* reassignment to a user that does not exist, or to an existing user under a
\* non-empty assignedUserName that is not that user's name, fails and leaves
\* both stores as they were; the task id is still in u.pendingTasks.
C16_FailedTaskUpdateChangesNothing ==
  \A t \in DOMAIN tasks : \A body \in TaskBodies :
    LET u == tasks[t].assignedUser
        a == body.assignedUser
        r == TasksRouteByIdPut(tasks, users, t, body)
    IN
    (/\ ~tasks[t].completed
     /\ InPending(users, u, t)
     /\ a \notin {Undef, EmptyId, u}
     /\ \/ a \notin DOMAIN users
        \/ /\ body.assignedUserName \notin {undefined, ""}
           /\ body.assignedUserName # users[a].name)
      => /\ r.result # OK
         /\ r.T = tasks
         /\ r.U = users
         /\ InPending(r.U, u, t)

\* C17: a user Update that carries a pendingTasks list and fails (an id of
\* the list does not exist, a listed task belongs to another user, or the
\* email is taken) leaves the assignedUser and assignedUserName of every task
\* as they were.
C17_FailedUserUpdateChangesNoTask ==
  \A u \in DOMAIN users : \A body \in UserBodies :
    LET r == UsersRouteByIdPut(tasks, users, u, body) IN
    (body.pendingTasks # NotArray /\ r.result # OK)
      => /\ DOMAIN r.T = DOMAIN tasks
         /\ \A t \in DOMAIN tasks :
              /\ r.T[t].assignedUser = tasks[t].assignedUser
              /\ r.T[t].assignedUserName = tasks[t].assignedUserName

\* C18: when a non-completed task points at an existing user u whose
\* pendingTasks lacks its id (a task Create or task Update stopped between
\* the task write and the user write), every successful task Update of that
\* task that leaves it assigned to u and not completed ends with the id in
\* u.pendingTasks, and a task Update that carries the task's name and
\* deadline and no assignedUser is such an Update.
C18_SelfHealing ==
  \A t \in DOMAIN tasks :
    LET u == tasks[t].assignedUser IN
    (~tasks[t].completed /\ u \in DOMAIN users /\ ~InPending(users, u, t))
      => /\ \A body \in AnyPutBodies :
              LET r == TasksRouteByIdPut(tasks, users, t, body) IN
              (r.result = OK /\ r.T[t].assignedUser = u /\ ~r.T[t].completed)
                => InPending(r.U, u, t)
         /\ LET r == TasksRouteByIdPut(tasks, users, t,
                       Body(tasks[t].name, undefined, tasks[t].deadline,
                            undefined, <<Undef, undefined>>, Undef))
            IN r = Resp(tasks, [users EXCEPT ![u].pendingTasks = Append(@, t)], OK)

\* C18 witness: a non-completed task points at an existing user whose
\* pendingTasks lacks its id, while that user has another pending task.
C18_Witness ==
  \E t, o \in DOMAIN tasks : \E u \in DOMAIN users :
    /\ t # o
    /\ tasks[t].assignedUser = u /\ ~tasks[t].completed
    /\ ~InPending(users, u, t)
    /\ InPending(users, u, o)
    /\ TasksRouteByIdPut(tasks, users, t,
         Body("Ship", undefined, 1, undefined, <<Undef, undefined>>, Undef)).result
         = OK

\* the handler of request r run from its first line to its answer on the
\* stores T and U
Handle(T, U, r) ==
  IF r.op = "POST" THEN TasksRoutePost(T, U, r.id, r.body)
  ELSE IF r.op = "PUT" THEN TasksRouteByIdPut(T, U, r.id, r.body)
  ELSE TasksRouteByIdDelete(T, U, r.id)

\* request r1 run alone on the stores the two requests found
Alone(r1) == Handle(start.T, start.U, r1)

\* request r1 and then request r2, one after the other
Serial(r1, r2) == Handle(Alone(r1).T, Alone(r1).U, r2)

\* C19 as stated: once two task requests on two different tasks have both
\* been answered, every user's pendingTasks holds the ids it holds after the
\* two requests run one after the other in some order, and the task of
\* either request, when it is assigned and not completed, is in the
\* pendingTasks of its assignee.
C19_NoLostUpdate ==
  LET rp == procs["p"]
      rq == procs["q"]
  IN
  (BothDone /\ IsTaskOp(rp) /\ IsTaskOp(rq) /\ rp.id # rq.id)
    => /\ \A u \in DOMAIN users :
            \/ Range(users[u].pendingTasks)
                 = Range(Serial(rp, rq).U[u].pendingTasks)
            \/ Range(users[u].pendingTasks)
                 = Range(Serial(rq, rp).U[u].pendingTasks)
       /\ \A t \in {rp.id, rq.id} \cap DOMAIN tasks :
            (tasks[t].assignedUser # EmptyId /\ ~tasks[t].completed)
              => InPending(users, tasks[t].assignedUser, t)

\* C19 amended: once two task requests on two different tasks have both been
\* answered, the task store is the one the two requests leave when run one
\* after the other, and every user's pendingTasks is either the array of
\* such a run, in one of the two orders, or the array one of the two requests
\* leaves when run alone (the write of the other request is lost).
C19_SerialOrOneLost ==
  LET rp == procs["p"]
      rq == procs["q"]
  IN
  (BothDone /\ IsTaskOp(rp) /\ IsTaskOp(rq) /\ rp.id # rq.id)
    => /\ tasks = Serial(rp, rq).T
       /\ tasks = Serial(rq, rp).T
       /\ DOMAIN users = DOMAIN start.U
       /\ \A u \in DOMAIN users :
            /\ users[u].name = start.U[u].name
            /\ users[u].email = start.U[u].email
            /\ users[u].pendingTasks \in
                 {Serial(rp, rq).U[u].pendingTasks,
                  Serial(rq, rp).U[u].pendingTasks,
                  Alone(rp).U[u].pendingTasks,
                  Alone(rq).U[u].pendingTasks}

\* C19 witness: both requests were answered with success, the first created
\* a task for user u and the second updated another task of u, and
\* u.pendingTasks lacks an id that both serial runs leave in it.
C19_Witness ==
  LET rp == procs["p"]
      rq == procs["q"]
  IN
  /\ BothDone
  /\ rp.op = "POST" /\ rq.op = "PUT"
  /\ rp.result = OK /\ rq.result = OK
  /\ \E u \in DOMAIN users : \E t \in {rp.id, rq.id} :
       /\ tasks[rp.id].assignedUser = u
       /\ tasks[rq.id].assignedUser = u
       /\ ~InPending(users, u, t)
       /\ InPending(Serial(rp, rq).U, u, t)
       /\ InPending(Serial(rq, rp).U, u, t)

\* C20: once two task Updates of one non-completed task, one reassigning it
\* to user a and the other to another user b, have both been answered, the
\* task id is in the pendingTasks of the user the task references and in no
\* other user's pendingTasks.
C20_SingleOwner ==
  LET rp == procs["p"]
      rq == procs["q"]
      t == rp.id
      a == rp.body.assignedUser
      b == rq.body.assignedUser
  IN
  (/\ BothDone
   /\ rp.op = "PUT" /\ rq.op = "PUT" /\ rq.id = t
   /\ ~start.T[t].completed
   /\ a \in DOMAIN start.U /\ b \in DOMAIN start.U /\ a # b
   /\ start.T[t].assignedUser \notin {a, b}
   /\ rp.body.completed = undefined /\ rq.body.completed = undefined)
    => \A u \in DOMAIN users :
         InPending(users, u, t) <=> u = tasks[t].assignedUser

\* C21: once a task Create or task Update and a user Delete that ran
\* together (or two task requests) have both been answered, every task with
\* a non-empty assignedUser references a user that exists.
C21_NoDanglingAssignee ==
  BothDone
    => \A t \in DOMAIN tasks :
         tasks[t].assignedUser # EmptyId
           => tasks[t].assignedUser \in DOMAIN users

\* the user requests whose pendingTasks array names task t twice
RepeatingLists(t) ==
  {body \in UserBodies :
     body.pendingTasks # NotArray /\ Count(body.pendingTasks, t) > 1}

\* no id occurs twice in any user's pendingTasks
IsSet(U) ==
  \A u \in DOMAIN U : \A t \in TaskIds : Count(U[u].pendingTasks, t) <= 1

\* C22: under requests handled one at a time no user's pendingTasks holds a
\* task id more than once, and a user Update whose pendingTasks array repeats
\* an id stores the id once when it succeeds.
C22_PendingTasksIsSet ==
  /\ IsSet(users)
  /\ \A u \in DOMAIN users : \A t \in TaskIds : \A body \in RepeatingLists(t) :
       LET r == UsersRouteByIdPut(tasks, users, u, body) IN
       r.result = OK => IsSet(r.U) /\ Count(r.U[u].pendingTasks, t) = 1

\* a user with two pending tasks, left by repeated task requests for that
\* user, for whom a user Update with an array that repeats one id succeeds
C22_Witness ==
  \E u \in DOMAIN users : \E t \in TaskIds : \E body \in RepeatingLists(t) :
    /\ Len(users[u].pendingTasks) = 2
    /\ UsersRouteByIdPut(tasks, users, u, body).result = OK
    /\ UsersRouteByIdPut(tasks, users, u, body).U[u].pendingTasks = <<t>>

====
